---- MODULE Spec2Model ----
(***************************************************************************)
(* EPG normalisation scripts of senvora/epg:                               *)
(*   scripts/epg-downloader.py       (batch of download jobs, "downloader")*)
(*   scripts/tataplay_epg.py         ("tataplay")                          *)
(*   scripts/dishtv_epg.py           ("dishtv")                            *)
(*   scripts/personal/distrotv_epg.py("distrotv")                          *)
(*                                                                         *)
(* Strings are sequences of character codes (ASCII), so that slicing,      *)
(* lower-casing, parsing and lexicographic comparison are computed.        *)
(* Instants are seconds since 2024-01-01 00:00:00 UTC; the calendar of the *)
(* model is January 2024, where every timestamp of the inputs lies.        *)
(***************************************************************************)
EXTENDS Integers, Sequences, FiniteSets, TLC

\* ------------------------------------------------------------ bounds
MaxProgs == 2
MaxKids == 3
MaxChans == 2
MaxJobs == 2
MaxTicks == 1

\* ------------------------------------------------------------ strings
\* An absent attribute (attrib has no such key) or an element text of None.
Missing == <<0>>

Min(a, b) == IF a <= b THEN a ELSE b

\* s[:n]
Take(s, n) == SubSeq(s, 1, Min(n, Len(s)))

\* attrib.get(key, "")
Get(a) == IF a = Missing THEN <<>> ELSE a

\* str.lower() on the ASCII letters
LowerCh(c) == IF c >= 65 /\ c <= 90 THEN c + 32 ELSE c
Lower(s) == [i \in 1..Len(s) |-> LowerCh(s[i])]

\* c is white space for str.strip()
IsSpace(c) == c = 32

RECURSIVE LStrip(_)
LStrip(s) == IF s # <<>> /\ IsSpace(s[1]) THEN LStrip(Tail(s)) ELSE s
RECURSIVE RStrip(_)
RStrip(s) ==
  IF s # <<>> /\ IsSpace(s[Len(s)]) THEN RStrip(SubSeq(s, 1, Len(s) - 1)) ELSE s
\* str.strip()
Strip(s) == RStrip(LStrip(s))

\* str.replace(" ", "")
NoSpaces(s) == SelectSeq(s, LAMBDA c : c # 32)

\* Python's < on str: code point order, a proper prefix is smaller
RECURSIVE StrLess(_, _)
StrLess(a, b) ==
  IF b = <<>> THEN FALSE
  ELSE IF a = <<>> THEN TRUE
  ELSE IF a[1] # b[1] THEN a[1] < b[1]
  ELSE StrLess(Tail(a), Tail(b))

\* Python's < on a tuple of two str
PairLess(k1, k2) ==
  IF k1[1] # k2[1] THEN StrLess(k1[1], k2[1]) ELSE StrLess(k1[2], k2[2])

\* list.sort / sorted on a sequence of [key, val] records: stable insertion
\* (an element goes after every element whose key is not greater than its own)
RECURSIVE InsertByKey(_, _)
InsertByKey(x, s) ==
  IF s = <<>> THEN <<x>>
  ELSE IF PairLess(x.key, s[1].key) THEN <<x>> \o s
  ELSE <<s[1]>> \o InsertByKey(x, Tail(s))
RECURSIVE SortByKey(_)
SortByKey(s) ==
  IF s = <<>> THEN <<>>
  ELSE InsertByKey(s[Len(s)], SortByKey(SubSeq(s, 1, Len(s) - 1)))

\* ------------------------------------------------------------ time
\* timedelta(hours=5, minutes=30), in seconds
IstOffset == 19800
DaySecs == 24 * 3600
\* today_start + timedelta(days=2)
WindowDays == 2

\* two decimal digits
Str2(n) == <<48 + (n \div 10), 48 + (n % 10)>>

\* strftime("%Y%m%d%H%M%S") of the civil time c (seconds since 2024-01-01 00:00:00)
Fmt14(c) ==
  <<50, 48, 50, 52, 48, 49>> \o Str2((c \div DaySecs) + 1)
    \o Str2((c % DaySecs) \div 3600) \o Str2((c % 3600) \div 60) \o Str2(c % 60)

\* " +0530"
IstSuffix == <<32, 43, 48, 53, 51, 48>>
\* " +0000"
UtcSuffix == <<32, 43, 48, 48, 48, 48>>

IsDigit(c) == c >= 48 /\ c <= 57
Num2(s, i) == (s[i] - 48) * 10 + (s[i + 1] - 48)

NoTime == [ok |-> FALSE, t |-> 0]

\* datetime.strptime(s, "%Y%m%d%H%M%S"): the naive civil time, or ValueError.
\* (fields are two digits wide; strptime's one-digit fields are not modelled)
Strptime14(s) ==
  IF Len(s) = 14 /\ (\A i \in 1..14 : IsDigit(s[i]))
     /\ Num2(s, 5) \in 1..12 /\ Num2(s, 7) \in 1..31
     /\ Num2(s, 9) <= 23 /\ Num2(s, 11) <= 59 /\ Num2(s, 13) <= 59
  THEN [ok |-> TRUE,
        t |-> (Num2(s, 7) - 1) * DaySecs + Num2(s, 9) * 3600
              + Num2(s, 11) * 60 + Num2(s, 13)]
  ELSE NoTime

\* datetime.strptime(s, "%Y%m%d%H%M%S %z"): the instant, or ValueError.
\* %z needs a sign and four digits after the white space.
StrptimeZ(s) ==
  IF Len(s) = 20 /\ Strptime14(Take(s, 14)).ok /\ s[15] = 32
     /\ s[16] \in {43, 45} /\ (\A i \in 17..20 : IsDigit(s[i]))
     /\ Num2(s, 19) <= 59
  THEN [ok |-> TRUE,
        t |-> Strptime14(Take(s, 14)).t
              - (IF s[16] = 43 THEN 1 ELSE -1) * (Num2(s, 17) * 3600 + Num2(s, 19) * 60)]
  ELSE NoTime

\* ------------------------------------------------------------ documents
\* A document is [date, channels, progs]; date is a string or Missing.
\* A channel is [el, id, kids], kids a sequence of [tag, lang, text] elements;
\* a programme is [el, channel, start, stop, kids].  el is the identity of the
\* element object in the parsed tree (0 in a serialized document).
NoDoc == [date |-> Missing, channels |-> <<>>, progs |-> <<>>]

\* ET.parse: the tree of a serialized document, each element a fresh object
ParseDoc(d) ==
  [date |-> d.date,
   channels |-> [i \in 1..Len(d.channels) |-> [d.channels[i] EXCEPT !.el = i]],
   progs |-> [i \in 1..Len(d.progs) |-> [d.progs[i] EXCEPT !.el = i]]]

\* ET.tostring: the text of the tree (object identity is not part of it)
Serialize(d) ==
  [date |-> d.date,
   channels |-> [i \in 1..Len(d.channels) |-> [d.channels[i] EXCEPT !.el = 0]],
   progs |-> [i \in 1..Len(d.progs) |-> [d.progs[i] EXCEPT !.el = 0]]]

\* element.findall(tag), as the positions of the children
Positions(kids, tag) == {i \in 1..Len(kids) : kids[i].tag = tag}
\* element.find(tag): the position of the first child with that tag, 0 for None
RECURSIVE FirstFrom(_, _, _)
FirstFrom(kids, tag, i) ==
  IF i > Len(kids) THEN 0
  ELSE IF kids[i].tag = tag THEN i
  ELSE FirstFrom(kids, tag, i + 1)
FirstPos(kids, tag) == FirstFrom(kids, tag, 1)

\* the children at the positions of keep, in order
RECURSIVE KeepAt(_, _, _)
KeepAt(kids, keep, i) ==
  IF i > Len(kids) THEN <<>>
  ELSE (IF i \in keep THEN <<kids[i]>> ELSE <<>>) \o KeepAt(kids, keep, i + 1)

\* text is None or text.strip() == ""
EmptyText(t) == t = Missing \/ Strip(t) = <<>>

\* ------------------------------------------------------------ epg-downloader.py
\* suffix = ".my" if provider == "astro" else ".in"
Suffix(provider) ==
  IF provider = "astro" THEN <<46, 109, 121>> ELSE <<46, 105, 110>>

\* the stripped text of the first display-name of a channel, "" when the
\* channel has no display-name element or the element has no text
ChannelName(ch) ==
  LET i == FirstPos(ch.kids, "display-name") IN
  IF i = 0 THEN <<>>
  ELSE Strip(IF ch.kids[i].text = Missing THEN <<>> ELSE ch.kids[i].text)

NewId(ch, provider) == NoSpaces(Lower(ChannelName(ch))) \o Suffix(provider)

\* mutant of NormalizeChannel: the id is rewritten outside the test of the name
NormalizeChannelAlways(ch, provider) ==
  [ch EXCEPT
     !.id = NewId(ch, provider),
     !.kids = SelectSeq(ch.kids, LAMBDA k : k.tag = "display-name")]

\* one channel of the rename loop: the id is rewritten when the name is
\* usable, and only display-name children stay
NormalizeChannel(ch, provider) ==
  [ch EXCEPT
     !.id = IF ChannelName(ch) # <<>> THEN NewId(ch, provider) ELSE ch.id,
     !.kids = SelectSeq(ch.kids, LAMBDA k : k.tag = "display-name")]

\* id_map after the channel loop: the entry of old is the one written by the
\* last channel with that old id and a usable name
IdMapKeys(channels) ==
  {Get(channels[i].id) : i \in {j \in 1..Len(channels) : ChannelName(channels[j]) # <<>>}}
RECURSIVE IdMapFrom(_, _, _, _)
IdMapFrom(channels, provider, old, j) ==
  IF ChannelName(channels[j]) # <<>> /\ Get(channels[j].id) = old
  THEN NewId(channels[j], provider)
  ELSE IdMapFrom(channels, provider, old, j - 1)
\* id_map[old], for a key old of id_map
IdMapAt(channels, provider, old) == IdMapFrom(channels, provider, old, Len(channels))

NormalizeProgramme(p, channels, provider) ==
  [p EXCEPT
     !.channel = IF Get(p.channel) \in IdMapKeys(channels)
                 THEN IdMapAt(channels, provider, Get(p.channel))
                 ELSE p.channel,
     !.kids = SelectSeq(p.kids, LAMBDA k : k.tag \in {"title", "desc"})]

normalize_channels_and_programmes(root, provider) ==
  [date |-> root.date,
   channels |-> [i \in 1..Len(root.channels) |->
                   NormalizeChannel(root.channels[i], provider)],
   progs |-> [i \in 1..Len(root.progs) |->
                NormalizeProgramme(root.progs[i], root.channels, provider)]]

\* parse_time(ts): the instant, or ValueError
parse_time(ts) ==
  IF Len(ts) = 14 THEN Strptime14(ts)
  ELSE IF Len(ts) >= 15 THEN StrptimeZ(Take(ts, 15))
  ELSE NoTime

\* dt.astimezone(IST).strftime("%Y%m%d%H%M%S %z") of an instant
IstString(t) == Fmt14(t + IstOffset) \o IstSuffix

\* now.replace(hour=0, minute=0, second=0, microsecond=0), as an instant
Midnight(now) == (now + IstOffset) - ((now + IstOffset) % DaySecs) - IstOffset

\* stop > start_day and start < end_day
DownloaderOverlap(start, stop, now) ==
  stop > Midnight(now) /\ start < Midnight(now) + WindowDays * DaySecs

\* the exception raised inside the try block of one programme:
\* prog.attrib["start"] on an absent attribute, parse_time on a bad string
AttrError(a) ==
  IF a = Missing THEN "KeyError"
  ELSE IF ~parse_time(a).ok THEN "ValueError"
  ELSE "none"
ProgError(p) == IF AttrError(p.start) # "none" THEN AttrError(p.start) ELSE AttrError(p.stop)
\* mutant of Caught: except ValueError, which lets a KeyError through
CaughtValueErrorOnly(e) == e = "ValueError"

\* except Exception as e: the handler of the loop takes every exception
Caught(e) == TRUE

\* the exception that leaves convert_and_filter_programmes, "none" when
\* every exception of the loop is handled inside it
RECURSIVE ConvertErrorFrom(_, _)
ConvertErrorFrom(progs, i) ==
  IF i > Len(progs) THEN "none"
  ELSE IF ProgError(progs[i]) # "none" /\ ~Caught(ProgError(progs[i]))
  THEN ProgError(progs[i])
  ELSE ConvertErrorFrom(progs, i + 1)
ConvertError(root) == ConvertErrorFrom(root.progs, 1)

\* the try block of one programme: TRUE when it reaches keep_progs
DownloaderKeeps(p, now) ==
  /\ ProgError(p) = "none"
  /\ DownloaderOverlap(parse_time(p.start).t, parse_time(p.stop).t, now)

DownloaderConvert(p) ==
  [p EXCEPT !.start = IstString(parse_time(p.start).t),
            !.stop = IstString(parse_time(p.stop).t)]

\* mutant of DateStamp: the clock read again when the date is stamped
DateStampLate(now, later) == IstString(later)

\* root.set("date", now.strftime(...)): now is the value read at the top of the
\* function; later is the clock when this line runs
DateStamp(now, later) == IstString(now)

\* the programme loop: keep_progs, each kept programme with its attributes
\* rewritten
RECURSIVE KeepProgs(_, _, _)
KeepProgs(progs, now, i) ==
  IF i > Len(progs) THEN <<>>
  ELSE (IF DownloaderKeeps(progs[i], now) THEN <<DownloaderConvert(progs[i])>> ELSE <<>>)
       \o KeepProgs(progs, now, i + 1)

convert_and_filter_programmes(root, now, later) ==
  [date |-> DateStamp(now, later),
   channels |-> root.channels,
   progs |-> KeepProgs(root.progs, now, 1)]

Vals(kv) == [i \in 1..Len(kv) |-> kv[i].val]

\* key=lambda c: c.attrib.get("id", "")
DownloaderChannelKey(c) == <<Get(c.id), <<>>>>
\* prog_sort_key
prog_sort_key(p) == <<Get(p.channel), Get(p.start)>>

sort_elements(root) ==
  [date |-> root.date,
   channels |-> Vals(SortByKey([i \in 1..Len(root.channels) |->
       [key |-> DownloaderChannelKey(root.channels[i]), val |-> root.channels[i]]])),
   progs |-> Vals(SortByKey([i \in 1..Len(root.progs) |->
       [key |-> prog_sort_key(root.progs[i]), val |-> root.progs[i]]]))]

\* ------------------------------------------------------------ tataplay / dishtv / distrotv
\* to_ist_str (tataplay, distrotv): the first 14 characters read as UTC and
\* rendered in IST; the string itself when they do not parse
to_ist_str(s) ==
  IF Strptime14(Take(s, 14)).ok
  THEN Fmt14(Strptime14(Take(s, 14)).t + IstOffset) \o IstSuffix
  ELSE s

\* to_ist_dt (tataplay, distrotv): the instant, or None
to_ist_dt(s) == Strptime14(Take(s, 14))

\* relabel_as_ist (dishtv): the first 14 characters kept, " +0530" appended
relabel_as_ist(s) ==
  IF Strptime14(Take(s, 14)).ok
  THEN Fmt14(Strptime14(Take(s, 14)).t) \o IstSuffix
  ELSE s

\* parse_dt_ist (dishtv): the first 14 characters read as IST civil time
parse_dt_ist(s) ==
  IF Strptime14(Take(s, 14)).ok
  THEN [ok |-> TRUE, t |-> Strptime14(Take(s, 14)).t - IstOffset]
  ELSE NoTime

\* the string written to a present start/stop/date attribute
ScriptTimeString(script, s) ==
  IF script = "dishtv" THEN relabel_as_ist(s) ELSE to_ist_str(s)

\* start_dt / stop_dt of a programme attribute (an absent attribute gives None)
ScriptInstant(script, a) ==
  IF script = "dishtv" THEN parse_dt_ist(relabel_as_ist(Get(a)))
  ELSE IF a = Missing THEN NoTime
  ELSE to_ist_dt(a)

\* tomorrow_end = today_start + timedelta(days=2) - timedelta(seconds=1)
TomorrowEnd(now) == Midnight(now) + WindowDays * DaySecs - 1

\* mutant of ScriptOverlap: the upper end compared with today_start + 2 days
ScriptOverlapInclusive(start, stop, now) ==
  ~(stop < Midnight(now) \/ start > Midnight(now) + WindowDays * DaySecs)

\* not (stop_dt < today_start or start_dt > tomorrow_end)
ScriptOverlap(start, stop, now) ==
  ~(stop < Midnight(now) \/ start > TomorrowEnd(now))

ScriptKeeps(script, p, now) ==
  /\ ScriptInstant(script, p.start).ok /\ ScriptInstant(script, p.stop).ok
  /\ ScriptOverlap(ScriptInstant(script, p.start).t,
                   ScriptInstant(script, p.stop).t, now)

\* "if len(titles) > 1: remove every one whose lang is not en"
OnlyEnglish(kids, tag) ==
  IF Cardinality(Positions(kids, tag)) > 1
  THEN KeepAt(kids, {i \in 1..Len(kids) : kids[i].tag # tag \/ kids[i].lang = "en"}, 1)
  ELSE kids

\* "element = programme.find(tag); remove it when its text is empty"
DropFirstEmpty(kids, tag) ==
  LET i == FirstPos(kids, tag) IN
  IF i # 0 /\ EmptyText(kids[i].text)
  THEN KeepAt(kids, (1..Len(kids)) \ {i}, 1)
  ELSE kids

\* the title/desc reduction of one kept programme
ReduceKids(kids) ==
  LET a == OnlyEnglish(OnlyEnglish(kids, "title"), "desc")
      b == SelectSeq(a, LAMBDA k : k.tag \in {"title", "desc"})
  IN DropFirstEmpty(DropFirstEmpty(b, "title"), "desc")

ScriptConvert(script, p) ==
  [p EXCEPT
     !.start = IF p.start = Missing THEN Missing ELSE ScriptTimeString(script, p.start),
     !.stop = IF p.stop = Missing THEN Missing ELSE ScriptTimeString(script, p.stop),
     !.kids = ReduceKids(p.kids)]

\* the date relabel and the programme loop; the channels are untouched
RECURSIVE ScriptKeepProgs(_, _, _, _)
ScriptKeepProgs(script, progs, now, i) ==
  IF i > Len(progs) THEN <<>>
  ELSE (IF ScriptKeeps(script, progs[i], now)
        THEN <<ScriptConvert(script, progs[i])>> ELSE <<>>)
       \o ScriptKeepProgs(script, progs, now, i + 1)

ScriptProgrammes(script, root, now) ==
  [date |-> IF root.date = Missing THEN Missing
            ELSE ScriptTimeString(script, root.date),
   channels |-> root.channels,
   progs |-> ScriptKeepProgs(script, root.progs, now, 1)]

\* channel_key (tataplay, dishtv)
channel_key(c) ==
  LET i == FirstPos(c.kids, "display-name") IN
  IF i # 0 /\ c.kids[i].text # Missing
  THEN <<Lower(c.kids[i].text), <<>>>>
  ELSE <<Lower(Get(c.id)), <<>>>>

\* key=lambda c: (c.find("display-name").text or "").lower()   (distrotv)
\* raises AttributeError on a channel without a display-name element
DistroKeyRaises(c) == FirstPos(c.kids, "display-name") = 0
DistroChannelKey(c) ==
  LET t == c.kids[FirstPos(c.kids, "display-name")].text IN
  <<Lower(IF t = Missing THEN <<>> ELSE t), <<>>>>

ScriptChannelKey(script, c) ==
  IF script = "distrotv" THEN DistroChannelKey(c) ELSE channel_key(c)

\* the channel sort raises
ScriptSortRaises(script, root) ==
  script = "distrotv" /\ \E i \in 1..Len(root.channels) : DistroKeyRaises(root.channels[i])

\* mutant of programme_key: the channel compared as written
programme_key_raw(p) == <<Get(p.channel), Get(p.start)>>

\* programme_key / sort_key
programme_key(p) == <<Lower(Get(p.channel)), Get(p.start)>>

ScriptSort(script, root) ==
  [date |-> root.date,
   channels |-> Vals(SortByKey([i \in 1..Len(root.channels) |->
       [key |-> ScriptChannelKey(script, root.channels[i]), val |-> root.channels[i]]])),
   progs |-> Vals(SortByKey([i \in 1..Len(root.progs) |->
       [key |-> programme_key(root.progs[i]), val |-> root.progs[i]]]))]

\* ------------------------------------------------------------ inputs
SeqsUpTo(S, n) == UNION {[1..k -> S] : k \in 0..n}

Scripts == {"downloader", "tataplay", "dishtv", "distrotv"}

\* IST civil time of 2024-01-10 00:00:00 and of 2024-01-12 00:00:00: the
\* retention window of a run whose now falls on 10 January (IST)
W0c == 9 * DaySecs
WEc == W0c + WindowDays * DaySecs
\* the clock when a run begins: 2024-01-10 23:59:59 IST
Clock0 == W0c + DaySecs - 1 - IstOffset

\* the ways a feed writes the IST civil time c
Forms == {"bareIst", "bareUtc", "offIst", "offUtc"}
FormStr(f, c) ==
  CASE f = "bareIst" -> Fmt14(c)
    [] f = "bareUtc" -> Fmt14(c - IstOffset)
    [] f = "offIst" -> Fmt14(c) \o IstSuffix
    [] f = "offUtc" -> Fmt14(c - IstOffset) \o UtcSuffix

Kid(tag, lang, text) == [tag |-> tag, lang |-> lang, text |-> text]
Chan(id, kids) == [el |-> 0, id |-> id, kids |-> kids]
Prog(ch, start, stop, kids) ==
  [el |-> 0, channel |-> ch, start |-> start, stop |-> stop, kids |-> kids]
Doc(date, channels, progs) == [date |-> date, channels |-> channels, progs |-> progs]

ChanA == Chan(<<97>>, <<Kid("display-name", "none", <<65>>)>>)
TitleEn == Kid("title", "en", <<78>>)

\* programmes around the two ends of the window, and ones with bad attributes
TimeProgs(f) ==
  {Prog(<<97>>, FormStr(f, se[1]), FormStr(f, se[2]), <<TitleEn>>) :
     se \in {<<W0c - 3600, W0c - 1>>, <<W0c - 3600, W0c>>,
             <<WEc - 1, WEc + 3600>>, <<WEc, WEc + 3600>>,
             <<W0c + 3600, W0c + 7200>>}}
  \cup {Prog(<<97>>, Missing, FormStr(f, W0c + 7200), <<TitleEn>>),
        Prog(<<97>>, FormStr(f, W0c + 3600), <<120>>, <<TitleEn>>),
        Prog(Missing, FormStr(f, W0c + 3600), FormStr(f, W0c + 7200), <<TitleEn>>)}

TimeDocs ==
  UNION {{Doc(date, <<ChanA>>, ps) : ps \in SeqsUpTo(TimeProgs(f), MaxProgs),
                                     date \in {Missing, FormStr(f, W0c - 7200)}}
         : f \in Forms}

\* the title/desc children of one programme inside the window
KidChoices ==
  {Kid("title", "en", <<78>>), Kid("title", "en", <<32>>), Kid("title", "hi", <<72>>),
   Kid("desc", "en", <<68>>), Kid("desc", "hi", Missing), Kid("icon", "none", Missing)}
MetaDocs ==
  {Doc(Missing, <<ChanA>>,
       <<Prog(<<97>>, Fmt14(W0c + 12 * 3600), Fmt14(W0c + 13 * 3600), kids)>>)
     : kids \in SeqsUpTo(KidChoices, MaxKids)}

\* channels with and without display names, ids of both cases
ChanChoices ==
  {Chan(id, kids) : id \in {<<66>>, <<97>>},
                    kids \in {<<>>, <<Kid("display-name", "none", <<32>>)>>,
                              <<Kid("display-name", "none", <<65, 32, 98>>)>>,
                              <<Kid("display-name", "none", <<97, 97>>)>>,
                              <<Kid("display-name", "none", <<65, 65>>),
                                Kid("icon", "none", Missing)>>}}
ProgIn == Prog(<<66>>, Fmt14(W0c + 12 * 3600), Fmt14(W0c + 13 * 3600), <<TitleEn>>)
ChanDocs ==
  {Doc(Missing, cs, <<ProgIn>>) : cs \in SeqsUpTo(ChanChoices, MaxChans)}

\* programmes of several channels (ids of both cases) and start times
OrderProgs ==
  {Prog(ch, Fmt14(W0c + h * 3600), Fmt14(W0c + 20 * 3600), <<>>) :
     ch \in {<<66>>, <<97>>, <<98>>}, h \in {12, 14}}
ProgDocs ==
  {Doc(Missing, <<ChanA, Chan(<<66>>, <<>>)>>, ps) : ps \in SeqsUpTo(OrderProgs, MaxProgs)}

AllDocs == TimeDocs \cup MetaDocs \cup ChanDocs \cup ProgDocs

\* the (source, destination, provider) triples of all_jobs; every source
\* serves the same document
Job(provider, dst) == [provider |-> provider, dst |-> dst]
Dests == {1, 2}
JobChoices == {Job(pr, d) : pr \in {"jiotv", "astro"}, d \in Dests}
JobLists == SeqsUpTo(JobChoices, MaxJobs) \ {<<>>}
BatchDocs ==
  {Doc(Missing, <<ChanA>>,
       <<Prog(<<97>>, Fmt14(W0c + 12 * 3600), Fmt14(W0c + 13 * 3600), <<TitleEn>>)>>)}

\* an output file: absent, whole (a complete gzip document), empty (just
\* truncated by the open) or partial (the write stopped before its end);
\* by is the job that wrote it, 0 for a previous cycle
NoFile == [st |-> "absent", by |-> 0, doc |-> NoDoc]
OldFile == [st |-> "whole", by |-> 0, doc |-> NoDoc]

\* ------------------------------------------------------------ state
VARIABLES
  script,   \* which of the four scripts runs
  jobs,     \* all_jobs (downloader); the script's one input/output pair otherwise
  ji,       \* index of the job the loop is at
  pc,       \* position in the script
  clock,    \* the wall clock, as an instant
  ticks,    \* seconds the clock has advanced since the run began
  now,      \* the value of datetime.now(IST) the run captured
  source,   \* the document the input holds
  root,     \* the parsed tree being transformed
  files,    \* the output files, by destination
  cleanXml, \* epg/distrotv.xml as rewritten by distrotv_epg.py
  before,   \* the output files as they were when the current run began
  log       \* the lines printed: [ev, job, why]

vars == <<script, jobs, ji, pc, clock, ticks, now, source, root, files, cleanXml, before, log>>

\* a run of one script on one document, no output file yet
InitOne(docs) ==
  /\ script \in Scripts
  /\ source \in docs
  /\ jobs = <<Job(IF script = "downloader" THEN "jiotv" ELSE script, 1)>>
  /\ files = [d \in Dests |-> NoFile]

\* a batch of epg-downloader.py, over what the previous cycle left
InitBatch ==
  /\ script = "downloader"
  /\ source \in BatchDocs
  /\ jobs \in JobLists
  /\ files \in [Dests -> {NoFile, OldFile}]

InitRest ==
  /\ ji = 1
  /\ pc = IF script = "downloader" THEN "idle" ELSE "s_init"
  /\ clock = Clock0
  /\ ticks = 0
  /\ now = 0
  /\ root = NoDoc
  /\ cleanXml = NoFile
  /\ before = files
  /\ log = <<>>

Init == (InitOne(AllDocs) \/ InitBatch) /\ InitRest

\* the batches, and each script on the documents of the batches
BatchInit == (InitOne(BatchDocs \cup {NoDoc}) \/ InitBatch) /\ InitRest

Line(ev, job, why) == [ev |-> ev, job |-> job, why |-> why]

\* the loop moves on to the next job, or the script ends
NextJob ==
  /\ ji' = ji + 1
  /\ pc' = IF ji = Len(jobs) THEN "exit" ELSE "idle"

\* time passes
Tick ==
  /\ pc \notin {"exit", "crashed"}
  /\ ticks < MaxTicks
  /\ clock' = clock + 1
  /\ ticks' = ticks + 1
  /\ UNCHANGED <<script, jobs, ji, pc, now, source, root, files, cleanXml, before, log>>

\* ---- epg-downloader.py
TryPcs == {"get", "fetched", "parsed", "normalized", "filtered", "sorted", "opened"}
\* mutant of Handler: the exception leaves process_and_save and ends the loop
HandlerAbort ==
  /\ ji' = ji
  /\ pc' = "exit"

\* what the handler of an exception does to the loop
Handler == NextJob

\* for url, filename, provider in all_jobs: process_and_save(...): "Downloading"
StartJob ==
  /\ script = "downloader" /\ pc = "idle"
  /\ log' = Append(log, Line("Downloading", ji, "none"))
  /\ before' = files
  /\ pc' = "get"
  /\ UNCHANGED <<script, jobs, ji, clock, ticks, now, source, root, files, cleanXml>>

\* requests.get and raise_for_status succeed
Download ==
  /\ pc = "get"
  /\ pc' = "fetched"
  /\ UNCHANGED <<script, jobs, ji, clock, ticks, now, source, root, files, cleanXml, before, log>>

\* gzip detection and ET.parse succeed
ParseXml ==
  /\ pc = "fetched"
  /\ root' = ParseDoc(source)
  /\ pc' = "parsed"
  /\ UNCHANGED <<script, jobs, ji, clock, ticks, now, source, files, cleanXml, before, log>>

Normalize ==
  /\ pc = "parsed"
  /\ root' = normalize_channels_and_programmes(root, jobs[ji].provider)
  /\ pc' = "normalized"
  /\ UNCHANGED <<script, jobs, ji, clock, ticks, now, source, files, cleanXml, before, log>>

\* convert_and_filter_programmes: now is read at its top; the loop may take
\* d seconds before the date is stamped; an exception the loop does not
\* handle reaches the handler of process_and_save
ConvertFilter ==
  /\ pc = "normalized"
  /\ \E d \in 0..(MaxTicks - ticks) :
       /\ now' = clock
       /\ clock' = clock + d
       /\ ticks' = ticks + d
       /\ IF ConvertError(root) = "none"
          THEN /\ root' = convert_and_filter_programmes(root, clock, clock + d)
               /\ pc' = "filtered"
               /\ UNCHANGED <<ji, log>>
          ELSE /\ log' = Append(log, Line("Error", ji, ConvertError(root)))
               /\ Handler
               /\ root' = root
  /\ UNCHANGED <<script, jobs, source, files, cleanXml, before>>

\* sort_elements and beautify_element
SortElements ==
  /\ pc = "filtered"
  /\ root' = sort_elements(root)
  /\ pc' = "sorted"
  /\ UNCHANGED <<script, jobs, ji, clock, ticks, now, source, files, cleanXml, before, log>>

\* gzip.open(gz_path, "wt"): the file is created or truncated
OpenOut ==
  /\ pc = "sorted"
  /\ files' = [files EXCEPT ![jobs[ji].dst] = [st |-> "empty", by |-> ji, doc |-> NoDoc]]
  /\ pc' = "opened"
  /\ UNCHANGED <<script, jobs, ji, clock, ticks, now, source, root, cleanXml, before, log>>

\* the two writes and the close succeed: "Saved"
WriteOut ==
  /\ pc = "opened"
  /\ files' = [files EXCEPT ![jobs[ji].dst] =
                 [st |-> "whole", by |-> ji, doc |-> Serialize(root)]]
  /\ log' = Append(log, Line("Saved", ji, "none"))
  /\ NextJob
  /\ UNCHANGED <<script, jobs, clock, ticks, now, source, root, cleanXml, before>>

\* an exception inside the try block (timeout, HTTP status, bad gzip, malformed
\* XML, MemoryError, OSError on open or write): "Error processing"; an open
\* file is closed with whatever was written
Raise ==
  /\ pc \in TryPcs
  /\ files' = IF pc = "opened"
              THEN [files EXCEPT ![jobs[ji].dst] = [st |-> "partial", by |-> ji, doc |-> NoDoc]]
              ELSE files
  /\ log' = Append(log, Line("Error", ji, "environment"))
  /\ Handler
  /\ UNCHANGED <<script, jobs, clock, ticks, now, source, root, cleanXml, before>>

\* ---- tataplay_epg.py, dishtv_epg.py, distrotv_epg.py
\* now = datetime.now(IST); today_start; tomorrow_end
ScriptNow ==
  /\ pc = "s_init"
  /\ now' = clock
  /\ before' = files
  /\ pc' = "s_now"
  /\ UNCHANGED <<script, jobs, ji, clock, ticks, source, root, files, cleanXml, log>>

\* tree = ET.parse(input_file)
ScriptParse ==
  /\ pc = "s_now"
  /\ root' = ParseDoc(source)
  /\ pc' = "s_parsed"
  /\ UNCHANGED <<script, jobs, ji, clock, ticks, now, source, files, cleanXml, before, log>>

\* the date relabel and the programme loop
ScriptLoop ==
  /\ pc = "s_parsed"
  /\ root' = ScriptProgrammes(script, root, now)
  /\ pc' = "s_filtered"
  /\ UNCHANGED <<script, jobs, ji, clock, ticks, now, source, files, cleanXml, before, log>>

\* the channel and programme sorts; an exception of the key ends the script
ScriptSortStep ==
  /\ pc = "s_filtered"
  /\ IF ScriptSortRaises(script, root)
     THEN /\ pc' = "crashed"
          /\ root' = root
          /\ log' = Append(log, Line("Traceback", ji, "AttributeError"))
     ELSE /\ pc' = "s_sorted"
          /\ root' = ScriptSort(script, root)
          /\ log' = log
  /\ UNCHANGED <<script, jobs, ji, clock, ticks, now, source, files, cleanXml, before>>

\* pretty print and write (distrotv also rewrites its plain XML file)
ScriptSave ==
  /\ pc = "s_sorted"
  /\ files' = [files EXCEPT ![jobs[ji].dst] =
                 [st |-> "whole", by |-> ji, doc |-> Serialize(root)]]
  /\ cleanXml' = IF script = "distrotv"
                 THEN [st |-> "whole", by |-> ji, doc |-> Serialize(root)]
                 ELSE cleanXml
  /\ log' = Append(log, Line("Saved", ji, "none"))
  /\ pc' = "exit"
  /\ UNCHANGED <<script, jobs, ji, clock, ticks, now, source, root, before>>

\* an uncaught exception: the input does not parse, or the write fails after
\* the output was opened
ScriptCrash ==
  /\ pc \in {"s_now", "s_sorted"}
  /\ files' = IF pc = "s_sorted"
              THEN [files EXCEPT ![jobs[ji].dst] = [st |-> "partial", by |-> ji, doc |-> NoDoc]]
              ELSE files
  /\ log' = Append(log, Line("Traceback", ji, "environment"))
  /\ pc' = "crashed"
  /\ UNCHANGED <<script, jobs, ji, clock, ticks, now, source, root, cleanXml, before>>

Step ==
  \/ StartJob \/ Download \/ ParseXml \/ Normalize \/ ConvertFilter
  \/ SortElements \/ OpenOut \/ WriteOut \/ Raise
  \/ ScriptNow \/ ScriptParse \/ ScriptLoop \/ ScriptSortStep \/ ScriptSave
  \/ ScriptCrash

Next == Tick \/ Step

Spec == Init /\ [][Next]_vars

\* the interpreter keeps executing the script until it ends
FairSpec == BatchInit /\ [][Next]_vars /\ WF_vars(Step)

\* ------------------------------------------------------------ properties
\* the tree holds the result of the retention filter
Filtered == pc \in {"filtered", "sorted", "opened", "s_filtered", "s_sorted"}

\* the instant the running script reads in a start/stop attribute of its input
InputInstant(a) ==
  IF script = "downloader"
  THEN (IF a = Missing THEN NoTime ELSE parse_time(a))
  ELSE ScriptInstant(script, a)

\* programme i of the input is still in the tree
Kept(i) == \E k \in 1..Len(root.progs) : root.progs[k].el = i

BothParse(i) ==
  InputInstant(source.progs[i].start).ok /\ InputInstant(source.progs[i].stop).ok
StartOf(i) == InputInstant(source.progs[i].start).t
StopOf(i) == InputInstant(source.progs[i].stop).t
WindowStart == Midnight(now)
WindowEnd == Midnight(now) + WindowDays * DaySecs

\* C1 as stated: a programme whose start and stop parse is kept iff
\* stop >= window_start and start <= window_end (both ends inclusive).
C1_Inclusive ==
  Filtered =>
    \A i \in 1..Len(source.progs) :
      BothParse(i) => (Kept(i) <=> (StopOf(i) >= WindowStart /\ StartOf(i) <= WindowEnd))

\* C1 amended: a programme whose start and stop parse is kept iff
\* start < window_end and stop >= window_start (tataplay, dishtv, distrotv),
\* or start < window_end and stop > window_start (epg-downloader): the upper
\* end of the window is exclusive in every script.
C1_Retention ==
  Filtered =>
    \A i \in 1..Len(source.progs) :
      BothParse(i) =>
        (Kept(i) <=> /\ StartOf(i) < WindowEnd
                     /\ IF script = "downloader" THEN StopOf(i) > WindowStart
                        ELSE StopOf(i) >= WindowStart)

\* a run that dropped a programme starting exactly at window_end and kept one
\* stopping exactly at window_start
C1_Witness ==
  /\ Filtered
  /\ \E i, j \in 1..Len(source.progs) :
       /\ BothParse(i) /\ StartOf(i) = WindowEnd /\ ~Kept(i)
       /\ BothParse(j) /\ StopOf(j) = WindowStart /\ Kept(j)

\* s has the explicit-offset form: 14 digits, a space, a signed 4-digit offset
OffsetForm(s) == s # Missing /\ StrptimeZ(s).ok

\* C2 as stated: a programme whose start and stop have the explicit-offset
\* form is not dropped as a parse failure, and the attributes written denote
\* the instants of the input at its stated offset, rendered at +0530.
C2_ExplicitOffset ==
  Filtered =>
    \A i \in 1..Len(source.progs) :
      (OffsetForm(source.progs[i].start) /\ OffsetForm(source.progs[i].stop)) =>
        /\ BothParse(i)
        /\ \A k \in 1..Len(root.progs) :
             root.progs[k].el = i =>
               /\ root.progs[k].start = IstString(StrptimeZ(source.progs[i].start).t)
               /\ root.progs[k].stop = IstString(StrptimeZ(source.progs[i].stop).t)

\* the whole run of epg-downloader.py on one document
RunDownloader(doc, provider, n) ==
  Serialize(sort_elements(convert_and_filter_programmes(
    normalize_channels_and_programmes(ParseDoc(doc), provider), n, n)))

\* the whole run of one of the other scripts on one document
RunScript(s, doc, n) ==
  Serialize(ScriptSort(s, ScriptProgrammes(s, ParseDoc(doc), n)))

\* the run of job j on doc with the clock reading n
Rerun(j, doc, n) ==
  IF script = "downloader" THEN RunDownloader(doc, jobs[j].provider, n)
  ELSE RunScript(script, doc, n)

\* the last line printed is "Saved" for the job that wrote file d
JustSaved(d) ==
  /\ files[d].st = "whole" /\ files[d].by > 0
  /\ log # <<>> /\ log[Len(log)] = Line("Saved", files[d].by, "none")

\* C3 as stated: the pipeline run again on its own output, with the same now
\* and provider, writes the same document.
C3_Idempotent ==
  \A d \in Dests :
    JustSaved(d) => Rerun(files[d].by, files[d].doc, now) = files[d].doc

\* C4 as stated: a programme whose start or stop is absent or does not parse,
\* or whose channel attribute is absent, is missing from the output.
C4_DropsAbsentChannel ==
  Filtered =>
    \A i \in 1..Len(source.progs) :
      (~BothParse(i) \/ source.progs[i].channel = Missing) => ~Kept(i)

\* the interval of programme i lies strictly inside the window
Inside(i) ==
  /\ BothParse(i)
  /\ StartOf(i) > WindowStart /\ StartOf(i) < WindowEnd
  /\ StopOf(i) > WindowStart

\* a line printed for an exception that a programme's attributes raised
AttributeFailure(l) == l.why \in {"KeyError", "ValueError"}

\* C4 amended: a programme whose start or stop is absent or does not parse is
\* missing from the output, no exception of it leaves the programme loop, and
\* the other programmes are still processed (one inside the window is kept);
\* an absent channel attribute alone does not drop a programme.
C4_DropsBadTimes ==
  /\ \A k \in 1..Len(log) : ~AttributeFailure(log[k])
  /\ Filtered =>
       \A i \in 1..Len(source.progs) :
         /\ ~BothParse(i) => ~Kept(i)
         /\ Inside(i) => Kept(i)

\* a filtered tree that lost a programme without start, and kept both a
\* sibling inside the window and a programme without channel attribute
C4_Witness ==
  /\ Filtered
  /\ \E i, j \in 1..Len(source.progs) :
       /\ source.progs[i].start = Missing /\ ~Kept(i)
       /\ source.progs[j].channel = Missing /\ Inside(j) /\ Kept(j)

\* the last line printed reports the failure of a run of epg-downloader.py
LastFailed ==
  /\ script = "downloader" /\ pc \in {"idle", "exit"}
  /\ log # <<>> /\ log[Len(log)].ev = "Error"

\* C5 as stated: when a run of process_and_save fails, the output file of its
\* provider is as it was before the run began.
C5_NoPartialOutput ==
  LastFailed =>
    files[jobs[log[Len(log)].job].dst] = before[jobs[log[Len(log)].job].dst]

\* the jobs for which "Downloading" was printed, in the order of the lines
Attempts == SelectSeq(log, LAMBDA l : l.ev = "Downloading")

\* the readings the clock can have during a run
ClockValues == Clock0..(Clock0 + MaxTicks)

\* every job so far was attempted once, in list order
AttemptsInOrder == \A k \in 1..Len(Attempts) : Attempts[k].job = k

\* a file a job wrote holds the output of that job's own run, whatever
\* happened to the jobs before it
OutputsOwn ==
  \A d \in Dests :
    (files[d].st = "whole" /\ files[d].by > 0) =>
      /\ jobs[files[d].by].dst = d
      /\ \E n \in ClockValues :
           files[d].doc = RunDownloader(source, jobs[files[d].by].provider, n)

\* the batch is over and every job of the list was attempted
AllAttempted == pc = "exit" /\ Len(Attempts) = Len(jobs)

\* C6: in a batch of epg-downloader.py every job is eventually attempted,
\* exactly once and in list order, whatever the outcome of the earlier jobs,
\* and a failed job changes nothing in the file a later job writes.
C6_Isolation ==
  /\ [](script = "downloader" => (AttemptsInOrder /\ OutputsOwn))
  /\ (script = "downloader") ~> AllAttempted

\* a batch that ended with its first job failed and its second job saved
C6_Witness ==
  /\ script = "downloader" /\ pc = "exit" /\ Len(jobs) >= 2
  /\ \E k \in 1..Len(log) : log[k] = Line("Error", 1, "environment")
  /\ log[Len(log)] = Line("Saved", 2, "none")
  /\ files[jobs[2].dst].by = 2


\* the title or desc children of programme k of the tree
TagKids(k, tag) ==
  SelectSeq(root.progs[k].kids, LAMBDA e : e.tag = tag)

\* C7 as stated: every retained programme has at most one title and at most
\* one desc, and a title or desc that survives is tagged lang="en" and has
\* non-empty text; a tag with no such variant has no element left.
C7_ReducedToEnglish ==
  Filtered =>
    \A k \in 1..Len(root.progs) : \A tag \in {"title", "desc"} :
      /\ Len(TagKids(k, tag)) <= 1
      /\ \A i \in 1..Len(TagKids(k, tag)) :
           /\ TagKids(k, tag)[i].lang = "en"
           /\ ~EmptyText(TagKids(k, tag)[i].text)

\* the tree holds the result of the sorts
Sorted == pc \in {"sorted", "opened", "s_sorted"}

\* the key of the stated channel order: the lowercased display-name text,
\* the lowercased id for a channel with no display name
NameOrId(c) ==
  LET i == FirstPos(c.kids, "display-name") IN
  IF i # 0 /\ c.kids[i].text # Missing /\ c.kids[i].text # <<>>
  THEN Lower(c.kids[i].text)
  ELSE Lower(Get(c.id))

\* C8 as stated: the output channels ascend by lowercased display-name text
\* (by lowercased id without a display name), channels of equal keys keep
\* their input order, and no input document makes the sort fail.
C8_ChannelOrder ==
  /\ Sorted =>
       \A i, j \in 1..Len(root.channels) :
         i < j =>
           /\ ~StrLess(NameOrId(root.channels[j]), NameOrId(root.channels[i]))
           /\ (NameOrId(root.channels[i]) = NameOrId(root.channels[j])
                 => root.channels[i].el < root.channels[j].el)
  /\ \A k \in 1..Len(log) : log[k].why # "AttributeError"


\* s has the canonical form: 14 digits followed by " +0530"
CanonicalIst(s) ==
  s # Missing /\ Len(s) = 20 /\ StrptimeZ(s).ok /\ SubSeq(s, 15, 20) = IstSuffix

\* Python's <= on a tuple of two str
PairLeq(k1, k2) == k1 = k2 \/ PairLess(k1, k2)

\* the (lowercased channel, start) pair of programme k of the tree
LowerPair(k) == <<Lower(Get(root.progs[k].channel)), Get(root.progs[k].start)>>
\* the (channel, start) pair of programme k of the tree
RawPair(k) == <<Get(root.progs[k].channel), Get(root.progs[k].start)>>

\* the start of every programme of the tree is canonical, and programmes in
\* sequence on one channel are in the order of their start instants
StartsCanonical ==
  /\ \A k \in 1..Len(root.progs) : CanonicalIst(root.progs[k].start)
  /\ \A k \in 1..(Len(root.progs) - 1) :
       root.progs[k].channel = root.progs[k + 1].channel =>
         StrptimeZ(root.progs[k].start).t <= StrptimeZ(root.progs[k + 1].start).t

\* C9 as stated: consecutive output programmes ascend by (lowercased channel,
\* start string); every start has the +0530 form, so one channel's programmes
\* are in chronological order.
C9_LowercasedOrder ==
  Sorted =>
    /\ \A k \in 1..(Len(root.progs) - 1) : PairLeq(LowerPair(k), LowerPair(k + 1))
    /\ StartsCanonical

\* C9 amended: consecutive output programmes ascend by (lowercased channel,
\* start string) in tataplay, dishtv and distrotv, and by (channel, start
\* string) with the channel compared as written in epg-downloader.py; every
\* start has the +0530 form and one channel's programmes are chronological.
C9_ProgrammeOrder ==
  Sorted =>
    /\ \A k \in 1..(Len(root.progs) - 1) :
         IF script = "downloader" THEN PairLeq(RawPair(k), RawPair(k + 1))
         ELSE PairLeq(LowerPair(k), LowerPair(k + 1))
    /\ StartsCanonical

\* the sort moved a programme ahead of one that came before it in the input,
\* on channels whose order depends on the case of the letters
C9_Witness ==
  /\ Sorted /\ Len(root.progs) = 2
  /\ root.progs[1].el > root.progs[2].el
  /\ StrLess(RawPair(1)[1], RawPair(2)[1]) # StrLess(LowerPair(1)[1], LowerPair(2)[1])


\* C10 as stated: the date attribute of the output root is the 'now' the run
\* read, in the +0530 form, whether or not the input root had a date
\* attribute, and the window is the one of that 'now'.
C10_DateIsNow ==
  Filtered =>
    /\ root.date = IstString(now)
    /\ \A i \in 1..Len(source.progs) :
         (BothParse(i) /\ Kept(i)) => (StartOf(i) < WindowEnd /\ StopOf(i) >= WindowStart)

\* the date attribute tataplay, dishtv and distrotv leave on the root: none
\* when the input has none; otherwise the first 14 characters of the input's
\* date, read as UTC and moved to IST (relabelled as they are by dishtv),
\* with " +0530"; the input's date as it is when those do not parse
DateFromInput ==
  IF source.date = Missing THEN root.date = Missing
  ELSE IF ~Strptime14(Take(source.date, 14)).ok THEN root.date = source.date
  ELSE /\ CanonicalIst(root.date)
       /\ IF script = "dishtv" THEN Take(root.date, 14) = Take(source.date, 14)
          ELSE StrptimeZ(root.date).t = Strptime14(Take(source.date, 14)).t

\* C10 amended: every run reads 'now' once and computes the window from it;
\* epg-downloader.py sets the root's date to that 'now' in the +0530 form,
\* unconditionally; tataplay, dishtv and distrotv do not stamp 'now': they
\* leave the root without date when the input has none and otherwise write
\* the input's own date converted (dishtv: relabelled) to +0530.
C10_SingleNow ==
  Filtered =>
    /\ IF script = "downloader" THEN root.date = IstString(now) ELSE DateFromInput
    /\ \A i \in 1..Len(source.progs) :
         (BothParse(i) /\ Kept(i)) => (StartOf(i) < WindowEnd /\ StopOf(i) >= WindowStart)

\* a run of epg-downloader.py whose filter ended after the second in which
\* 'now' was read, on an input with a date of its own
C10_Witness ==
  /\ Filtered /\ script = "downloader"
  /\ clock > now /\ source.date # Missing
  /\ root.date = IstString(now) /\ Len(root.progs) > 0


\* the tree holds the result of normalize_channels_and_programmes
Normalized == pc = "normalized"

\* no two channels of the sequence carry the same id
DistinctIds(channels) ==
  \A i, j \in 1..Len(channels) : i # j => channels[i].id # channels[j].id

\* C11 as stated: when the channel ids of the input are pairwise distinct,
\* the channel ids after normalize_channels_and_programmes are pairwise
\* distinct, whatever the display names are.
C11_UniqueIds ==
  Normalized => (DistinctIds(source.channels) => DistinctIds(root.channels))


\* programme k of the input referred to a channel of the input
Referred(k) ==
  \E c \in 1..Len(source.channels) :
    source.channels[c].id = source.progs[k].channel

\* programme k of the tree refers to a channel of the tree
Refers(k) ==
  \E c \in 1..Len(root.channels) : root.channels[c].id = root.progs[k].channel

\* C12: after normalize_channels_and_programmes every programme that
\* referred to a channel of the input refers to a channel of the output, and
\* a programme whose channel attribute is not a key of the rename map has
\* that attribute unchanged.
C12_ReferentialIntegrity ==
  Normalized =>
    /\ Len(root.progs) = Len(source.progs)
    /\ \A k \in 1..Len(source.progs) :
         /\ Referred(k) => Refers(k)
         /\ Get(source.progs[k].channel) \notin IdMapKeys(source.channels)
              => root.progs[k].channel = source.progs[k].channel

\* a normalized document with two channels of one old id, both renamed, and
\* a programme of that old id rewritten to the id of one of them
C12_Witness ==
  /\ Normalized /\ Len(source.channels) = 2 /\ Len(source.progs) > 0
  /\ source.channels[1].id = source.channels[2].id
  /\ root.channels[1].id # root.channels[2].id
  /\ root.channels[1].id # source.channels[1].id
  /\ root.channels[2].id # source.channels[2].id
  /\ Referred(1) /\ Refers(1)
  /\ root.progs[1].channel # source.progs[1].channel

====
